---------------------------- MODULE Spec2Model ----------------------------
(* Planning Center -> Airtable webhook forwarder.                          *)
(*                                                                         *)
(* Three versions of the HTTP handler file exist in the repository:        *)
(*   "standalone"  src/unnamed/part_000: self-contained handler, own        *)
(*                 extract helpers, rejects a body without data with 400;   *)
(*   "module"      src/planning-center-webhook.js: uses the helpers of      *)
(*                 airtable-methods.js, /test-read and /test-write;         *)
(*   "schemaAware" src/airtable-methods.js lines 154-332: probes the table  *)
(*                 schema first and sanitises Status.                       *)
(* A deployment runs one of them (variable variant).                        *)
(*                                                                         *)
(* JSON values: an object is a TLA+ record whose DOMAIN holds exactly the   *)
(* keys that are present; attribute values are strings ("" is the empty,    *)
(* falsy string); action is a tagged value so that a non-string action can  *)
(* be told apart.                                                           *)
EXTENDS Integers, Sequences, FiniteSets, TLC

VARIABLES
  variant,      \* which handler file is deployed
  now,          \* the clock read by new Date()
  tInput,       \* SpecTransform: the payload handed to the transformer
  tOutput,      \* SpecTransform: what the transformer returned
  table,        \* the remote store: the rows of table 'Test', in insertion order
  kind,         \* per request: the route it was sent to
  body,         \* per request: req.body
  pc,           \* per request: where its handler is suspended
  schema,       \* per request: what getTableSchema returned to it
  createArgs,   \* per request: the argument of every create call it issued
  writePromise, \* per request: the promise of its create call
  readOpts,     \* per request: queryOptions of its readFromAirtable call
  pending,      \* per request: rows the store has still to deliver to its call
  delivered,    \* per request: the pages the store delivered to its call
  allRecords,   \* per request: the accumulator of its readFromAirtable call
  readPromise,  \* per request: the promise readFromAirtable returned
  settles,      \* per request: how often resolve or reject was invoked
  resp          \* per request: the responses sent, in order

transformVars == <<tInput, tOutput>>
reqVars == <<kind, body>>
readVars == <<readOpts, pending, delivered, allRecords, readPromise, settles>>
writeVars == <<createArgs, writePromise>>
vars == <<variant, now, tInput, tOutput, table, kind, body, pc, schema,
          createArgs, writePromise, readOpts, pending, delivered, allRecords,
          readPromise, settles, resp>>

-----------------------------------------------------------------------------
(* Bounds *)

MaxClock == 1      \* the clock runs from 0 to MaxClock
MaxReqs == 2       \* requests in flight
MaxProbing == 1    \* requests in flight at the schema-aware handler
MaxSeedRows == 4   \* rows in the table before the first request
PageSize == 2      \* rows the store delivers per page

-----------------------------------------------------------------------------
(* JavaScript values *)

Str(s) == [type |-> "string", val |-> s]
Num(s) == [type |-> "number", val |-> s]

\* ToBoolean of a tagged string or number
Truthy(v) ==
  IF v.type = "string" THEN v.val # "" ELSE v.val # "0"

\* obj.key is present and truthy (attribute values are strings)
Has(obj, key) == key \in DOMAIN obj
TruthyAttr(obj, key) == Has(obj, key) /\ obj[key] # ""

NoError == [name |-> "", message |-> ""]
NotAFunction(what) ==
  [name |-> "TypeError", message |-> what \o " is not a function"]

\* String.prototype.toUpperCase over the action strings of the model
ToUpperCase(s) ==
  CASE s = "created"   -> "CREATED"
    [] s = "updated"   -> "UPDATED"
    [] s = "deleted"   -> "DELETED"
    [] s = "completed" -> "COMPLETED"
    [] s = "archived"  -> "ARCHIVED"

\* Date.prototype.toISOString of the clock value t
toISOString(t) == "2024-01-01T00:00:0" \o ToString(t) \o ".000Z"

-----------------------------------------------------------------------------
(* JSON.stringify(data): keys in a fixed order, strings quoted *)

AttrOrder ==
  <<"first_name", "last_name", "name", "title", "description", "notes", "status">>

Quote(s) == "\"" \o s \o "\""

RECURSIVE StringifyKeys(_, _, _)
StringifyKeys(obj, keys, first) ==
  IF keys = <<>> THEN ""
  ELSE IF Has(obj, Head(keys))
       THEN (IF first THEN "" ELSE ",")
            \o Quote(Head(keys)) \o ":" \o Quote(obj[Head(keys)])
            \o StringifyKeys(obj, Tail(keys), FALSE)
       ELSE StringifyKeys(obj, Tail(keys), first)

StringifyData(data) ==
  "{" \o Quote("type") \o ":" \o Quote(data.type)
      \o (IF Has(data, "attributes")
          THEN "," \o Quote("attributes") \o ":{"
                   \o StringifyKeys(data.attributes, AttrOrder, TRUE) \o "}"
          ELSE "")
      \o "}"

-----------------------------------------------------------------------------
(* Payload Transformer *)

\* Faulty variant of extractName: name is looked at before first_name and last_name
extractNameNameFirst(data, t) ==
  IF Has(data, "attributes") /\ TruthyAttr(data.attributes, "name")
  THEN data.attributes.name
  ELSE IF Has(data, "attributes")
          /\ TruthyAttr(data.attributes, "first_name")
          /\ TruthyAttr(data.attributes, "last_name")
  THEN data.attributes.first_name \o " " \o data.attributes.last_name
  ELSE IF Has(data, "attributes") /\ TruthyAttr(data.attributes, "title")
  THEN data.attributes.title
  ELSE "Planning Center Item - " \o toISOString(t)

extractName(data, t) ==
  IF Has(data, "attributes")
       /\ TruthyAttr(data.attributes, "first_name")
       /\ TruthyAttr(data.attributes, "last_name")
  THEN data.attributes.first_name \o " " \o data.attributes.last_name
  ELSE IF Has(data, "attributes") /\ TruthyAttr(data.attributes, "name")
  THEN data.attributes.name
  ELSE IF Has(data, "attributes") /\ TruthyAttr(data.attributes, "title")
  THEN data.attributes.title
  ELSE "Planning Center Item - " \o toISOString(t)

extractNotes(data) ==
  IF Has(data, "attributes") /\ TruthyAttr(data.attributes, "description")
  THEN data.attributes.description
  ELSE IF Has(data, "attributes") /\ TruthyAttr(data.attributes, "notes")
  THEN data.attributes.notes
  ELSE "Raw data: " \o StringifyData(data)

\* A call's outcome: a returned value, or a thrown error
Returned(v) == [threw |-> FALSE, value |-> v, error |-> NoError]
Threw(e) == [threw |-> TRUE, value |-> "", error |-> e]

\* Faulty variant of extractStatus: the action is returned as it came
extractStatusVerbatim(data, payload) ==
  IF Has(payload, "action") /\ Truthy(payload.action)
  THEN IF payload.action.type = "string"
       THEN Returned(payload.action.val)
       ELSE Threw(NotAFunction("action.toUpperCase"))
  ELSE IF Has(data, "attributes") /\ TruthyAttr(data.attributes, "status")
  THEN Returned(data.attributes.status)
  ELSE Returned("RECEIVED")

\* Policy (a): the action upper-cased.  A truthy action that is no string has
\* no toUpperCase method: the call throws a TypeError.
extractStatus(data, payload) ==
  IF Has(payload, "action") /\ Truthy(payload.action)
  THEN IF payload.action.type = "string"
       THEN Returned(ToUpperCase(payload.action.val))
       ELSE Threw(NotAFunction("action.toUpperCase"))
  ELSE IF Has(data, "attributes") /\ TruthyAttr(data.attributes, "status")
  THEN Returned(data.attributes.status)
  ELSE Returned("RECEIVED")

\* Policy (b): the fixed lookup of the schema-aware transformer
ValidStatuses == {"In progress", "Done", "Not started"}

extractStatusLookup(data, payload) ==
  IF Has(payload, "action") /\ Truthy(payload.action)
  THEN Returned(CASE payload.action.val = "created"   -> "Not started"
                  [] payload.action.val = "updated"   -> "In progress"
                  [] payload.action.val = "deleted"   -> "Done"
                  [] payload.action.val = "completed" -> "Done"
                  [] OTHER                            -> "Not started")
  ELSE IF Has(data, "attributes") /\ TruthyAttr(data.attributes, "status")
          /\ data.attributes.status \in ValidStatuses
  THEN Returned(data.attributes.status)
  ELSE Returned("Not started")

\* Which extractStatus the deployed transformer uses
StatusOf(v, data, payload) ==
  IF v = "schemaAware" THEN extractStatusLookup(data, payload)
  ELSE extractStatus(data, payload)

NoFields == [Name |-> "", Notes |-> "", Status |-> ""]
ErrorRecord ==
  [fields |-> [Name |-> "Unknown", Notes |-> "No data received", Status |-> "ERROR"]]

\* Faulty variant of transformWebhookToAirtableRecord: the guard also asks for a
\* missing action, so a payload with an action and no data reaches the
\* extractors, which read a property of undefined
transformGuardTooNarrow(v, payload, t) ==
  IF ~Has(payload, "data") /\ ~Has(payload, "action")
  THEN [threw |-> FALSE, record |-> ErrorRecord, error |-> NoError]
  ELSE IF ~Has(payload, "data")
  THEN [threw |-> TRUE, record |-> [fields |-> NoFields],
        error |-> [name |-> "TypeError",
                   message |-> "Cannot read properties of undefined"]]
  ELSE LET s == StatusOf(v, payload.data, payload)
       IN  IF s.threw
           THEN [threw |-> TRUE, record |-> [fields |-> NoFields], error |-> s.error]
           ELSE [threw |-> FALSE,
                 record |-> [fields |-> [Name   |-> extractName(payload.data, t),
                                         Notes  |-> extractNotes(payload.data),
                                         Status |-> s.value]],
                 error |-> NoError]

\* Returns [threw, record, error]
transformWebhookToAirtableRecord(v, payload, t) ==
  IF ~Has(payload, "data")
  THEN [threw |-> FALSE, record |-> ErrorRecord, error |-> NoError]
  ELSE LET s == StatusOf(v, payload.data, payload)
       IN  IF s.threw
           THEN [threw |-> TRUE, record |-> [fields |-> NoFields], error |-> s.error]
           ELSE [threw |-> FALSE,
                 record |-> [fields |-> [Name   |-> extractName(payload.data, t),
                                         Notes  |-> extractNotes(payload.data),
                                         Status |-> s.value]],
                 error |-> NoError]

-----------------------------------------------------------------------------
(* Payloads *)

NameKeys == {"first_name", "last_name", "name", "title"}
NoteKeys == {"description", "notes"}
AttrKeys == NameKeys \cup NoteKeys \cup {"status"}

ValuesOf(key) ==
  CASE key = "first_name"  -> {"", "Jane"}
    [] key = "last_name"   -> {"", "Doe"}
    [] key = "name"        -> {"", "Acme"}
    [] key = "title"       -> {"", "Picnic"}
    [] key = "description" -> {"Desc"}
    [] key = "notes"       -> {"Memo"}
    [] key = "status"      -> {"", "Done", "Archived"}

\* Every attributes object: each key absent, or present with one of its values
RECURSIVE AttributesOver(_)
AttributesOver(keys) ==
  IF keys = <<>> THEN {<<>>}
  ELSE LET rest == AttributesOver(Tail(keys))
       IN  rest \cup {(Head(keys) :> v) @@ a : v \in ValuesOf(Head(keys)), a \in rest}

Attributes == AttributesOver(AttrOrder)

Datas ==
  {[type |-> "Person"]} \cup {[type |-> "Person", attributes |-> a] : a \in Attributes}

Actions ==
  {Str(""), Str("created"), Str("updated"), Str("deleted"), Str("completed"),
   Str("archived"), Num("0"), Num("7")}

Payloads ==
  {<<>>} \cup {[action |-> a] : a \in Actions}
         \cup {[data |-> d] : d \in Datas}
         \cup {[data |-> d, action |-> a] : d \in Datas, a \in Actions}

-----------------------------------------------------------------------------
(* Remote store: table 'Test' *)

Reqs == 1..MaxReqs

Min(a, b) == IF a <= b THEN a ELSE b

StoreErrors ==
  {[name |-> "AUTHENTICATION_REQUIRED", message |-> "You should provide valid api key"],
   [name |-> "INVALID_MULTIPLE_CHOICE_OPTIONS", message |-> "Insufficient permissions to create new select option"]}

\* The row the store holds at position i before the first request
SeedFields(i) ==
  CASE i % 3 = 1 -> [Name |-> "Ann", Status |-> "Done"]
    [] i % 3 = 2 -> [Name |-> "Bob", Notes |-> "seed", Status |-> "Todo"]
    [] OTHER     -> [Name |-> "Cyd", Status |-> "Done", Priority |-> "High"]

SeedRow(i) ==
  [id |-> "rec" \o ToString(i), createdTime |-> toISOString(0), fields |-> SeedFields(i)]

SeedTable(n) == [i \in 1..n |-> SeedRow(i)]

\* create(records): the rows appended, each with a store-assigned identifier
StoreCreate(tbl, records, t) ==
  [i \in 1..Len(records) |->
     [id |-> "rec" \o ToString(Len(tbl) + i), createdTime |-> toISOString(t),
      fields |-> records[i].fields]]

\* select(queryOptions): the store honours maxRecords
StoreSelect(tbl, q) == SubSeq(tbl, 1, Min(q.maxRecords, Len(tbl)))

-----------------------------------------------------------------------------
(* Promises *)

NoPromise == [state |-> "none", value |-> <<>>, reason |-> NoError]
Pending == [state |-> "pending", value |-> <<>>, reason |-> NoError]
Resolve(p, v) ==
  IF p.state = "pending" THEN [state |-> "fulfilled", value |-> v, reason |-> NoError] ELSE p
Reject(p, e) ==
  IF p.state = "pending" THEN [state |-> "rejected", value |-> <<>>, reason |-> e] ELSE p
Settled(p) == p.state \in {"fulfilled", "rejected"}

-----------------------------------------------------------------------------
(* Remote Store Client *)

\* Faulty variant of writeToAirtable: the store's error is wrapped in a new one
writeToAirtableWrapping(p, err, createdRecords) ==
  IF err # NoError
  THEN Reject(p, [name |-> "Error", message |-> "Airtable write failed: " \o err.message])
  ELSE Resolve(p, createdRecords)

\* The callback writeToAirtable hands to create: reject with the store's error,
\* or resolve with the created records
writeToAirtable(p, err, createdRecords) ==
  IF err # NoError THEN Reject(p, err) ELSE Resolve(p, createdRecords)

DefaultMaxRecords == 100

\* queryOptions of readFromAirtable: options with the defaults filled in
queryOptions(options) ==
  [maxRecords |-> IF Has(options, "maxRecords") /\ options.maxRecords # 0
                  THEN options.maxRecords ELSE DefaultMaxRecords,
   view |-> IF Has(options, "view") /\ options.view # "" THEN options.view ELSE "Grid view",
   filterByFormula |-> "",
   sort |-> <<>>]

\* The page callback: push {id, fields} of every record of the page
page(acc, records) ==
  acc \o [i \in 1..Len(records) |-> [id |-> records[i].id, fields |-> records[i].fields]]

\* Faulty variant of done: the error is logged and the promise resolved all the same
doneIgnoringError(p, err, acc) == Resolve(p, acc)

\* The done callback
done(p, err, acc) ==
  IF err # NoError THEN Reject(p, err) ELSE Resolve(p, acc)

NoQuery == [open |-> FALSE, rows |-> <<>>]
NoOpts == [maxRecords |-> 0, view |-> "", filterByFormula |-> "", sort |-> <<>>]

\* readFromAirtable(options) called by request r: the query is sent
ReadStart(r, options) ==
  /\ readOpts' = [readOpts EXCEPT ![r] = queryOptions(options)]
  /\ pending' = [pending EXCEPT ![r] =
                   [open |-> TRUE, rows |-> StoreSelect(table, queryOptions(options))]]
  /\ delivered' = [delivered EXCEPT ![r] = <<>>]
  /\ allRecords' = [allRecords EXCEPT ![r] = <<>>]
  /\ readPromise' = [readPromise EXCEPT ![r] = Pending]
  /\ UNCHANGED settles

\* Faulty variant of StorePage: allRecords is one array shared by every call
StorePageShared(r) ==
  /\ pending[r].open
  /\ LET rows == pending[r].rows
         pg   == SubSeq(rows, 1, Min(PageSize, Len(rows)))
         rest == SubSeq(rows, Len(pg) + 1, Len(rows))
         acc  == page(allRecords[r], pg)
     IN  /\ delivered' = [delivered EXCEPT ![r] = Append(@, pg)]
         /\ allRecords' = [q \in Reqs |-> acc]
         /\ IF rest = <<>>
            THEN /\ pending' = [pending EXCEPT ![r] = [open |-> FALSE, rows |-> <<>>]]
                 /\ readPromise' = [readPromise EXCEPT ![r] = done(@, NoError, acc)]
                 /\ settles' = [settles EXCEPT ![r] = @ + 1]
            ELSE /\ pending' = [pending EXCEPT ![r] = [open |-> TRUE, rows |-> rest]]
                 /\ UNCHANGED <<readPromise, settles>>
  /\ UNCHANGED <<variant, now, transformVars, table, reqVars, pc, schema, writeVars,
                 readOpts, resp>>

\* The store delivers the next page to r's call; the page callback runs, and
\* on the last page fetchNextPage() invokes done(null)
StorePage(r) ==
  /\ pending[r].open
  /\ LET rows == pending[r].rows
         pg   == SubSeq(rows, 1, Min(PageSize, Len(rows)))
         rest == SubSeq(rows, Len(pg) + 1, Len(rows))
         acc  == page(allRecords[r], pg)
     IN  /\ delivered' = [delivered EXCEPT ![r] = Append(@, pg)]
         /\ allRecords' = [allRecords EXCEPT ![r] = acc]
         /\ IF rest = <<>>
            THEN /\ pending' = [pending EXCEPT ![r] = [open |-> FALSE, rows |-> <<>>]]
                 /\ readPromise' = [readPromise EXCEPT ![r] = done(@, NoError, acc)]
                 /\ settles' = [settles EXCEPT ![r] = @ + 1]
            ELSE /\ pending' = [pending EXCEPT ![r] = [open |-> TRUE, rows |-> rest]]
                 /\ UNCHANGED <<readPromise, settles>>
  /\ UNCHANGED <<variant, now, transformVars, table, reqVars, pc, schema, writeVars,
                 readOpts, resp>>

\* The store reports an error to r's call: done(err)
StoreFail(r) ==
  /\ pending[r].open
  /\ \E e \in StoreErrors :
       readPromise' = [readPromise EXCEPT ![r] = done(@, e, allRecords[r])]
  /\ pending' = [pending EXCEPT ![r] = [open |-> FALSE, rows |-> @.rows]]
  /\ settles' = [settles EXCEPT ![r] = @ + 1]
  /\ UNCHANGED <<variant, now, transformVars, table, reqVars, pc, schema, writeVars,
                 readOpts, delivered, allRecords, resp>>

\* The store answers r's create call: the rows are appended, or nothing is
StoreCreated(r) ==
  /\ pc[r] = "awaitCreate"
  /\ writePromise[r].state = "pending"
  /\ LET created == StoreCreate(table, createArgs[r][Len(createArgs[r])], now)
     IN  /\ table' = table \o created
         /\ writePromise' = [writePromise EXCEPT ![r] = writeToAirtable(@, NoError, created)]
  /\ UNCHANGED <<variant, now, transformVars, reqVars, pc, schema, createArgs,
                 readVars, resp>>

StoreRefused(r) ==
  /\ pc[r] = "awaitCreate"
  /\ writePromise[r].state = "pending"
  /\ \E e \in StoreErrors :
       writePromise' = [writePromise EXCEPT ![r] = writeToAirtable(@, e, <<>>)]
  /\ UNCHANGED <<variant, now, transformVars, table, reqVars, pc, schema, createArgs,
                 readVars, resp>>

\* A create call with the given records is issued by request r
CreateCall(r, records) ==
  /\ createArgs' = [createArgs EXCEPT ![r] = Append(@, records)]
  /\ writePromise' = [writePromise EXCEPT ![r] = Pending]

-----------------------------------------------------------------------------
(* Schema Prober *)

ProbeMaxRecords == 3

StaticFields ==
  <<[name |-> "Name", type |-> "text"],
    [name |-> "Notes", type |-> "text"],
    [name |-> "Status", type |-> "singleSelect"]>>

StaticNames == {"Name", "Notes", "Status"}
FieldOrder == <<"Name", "Notes", "Status", "Priority">>

InSeq(seq, x) == \E i \in 1..Len(seq) : seq[i] = x

\* Field names seen in the samples and absent from the static list
RECURSIVE Discovered(_, _)
Discovered(samples, names) ==
  IF names = <<>> THEN <<>>
  ELSE IF Head(names) \notin StaticNames
          /\ \E i \in 1..Len(samples) : Has(samples[i].fields, Head(names))
       THEN <<[name |-> Head(names), type |-> "unknown"]>> \o Discovered(samples, Tail(names))
       ELSE Discovered(samples, Tail(names))

\* The Status values seen in the samples, each once, in sample order
RECURSIVE ObservedStatuses(_, _)
ObservedStatuses(samples, seen) ==
  IF samples = <<>> THEN seen
  ELSE IF Has(Head(samples).fields, "Status") /\ ~InSeq(seen, Head(samples).fields.Status)
       THEN ObservedStatuses(Tail(samples), Append(seen, Head(samples).fields.Status))
       ELSE ObservedStatuses(Tail(samples), seen)

StaticSchema == [fields |-> StaticFields]

\* getTableSchema, given the settled promise of its sample read: never throws
getTableSchema(p) ==
  IF p.state = "rejected" THEN StaticSchema
  ELSE [fields |-> StaticFields \o Discovered(p.value, FieldOrder),
        recommendedValues |-> [Status |-> ObservedStatuses(p.value, <<>>)]]

-----------------------------------------------------------------------------
(* HTTP responses *)

Response(status, message, recordId, error, records) ==
  [status |-> status, message |-> message, recordId |-> recordId,
   error |-> error, recordCount |-> Len(records), records |-> records]

Respond(r, response) ==
  /\ resp' = [resp EXCEPT ![r] = Append(@, response)]
  /\ pc' = [pc EXCEPT ![r] = "done"]

-----------------------------------------------------------------------------
(* POST /webhook, stand-alone handler *)

\* Faulty variant of WebhookStandalone: no check for a missing data; the fixed error
\* record is written instead
WebhookStandaloneNoReject(r) ==
  /\ variant = "standalone" /\ kind[r] = "webhook" /\ pc[r] = "received"
  /\ IF ~Has(body[r], "data")
     THEN /\ CreateCall(r, <<ErrorRecord>>)
          /\ pc' = [pc EXCEPT ![r] = "awaitCreate"]
          /\ UNCHANGED resp
     ELSE LET s == extractStatus(body[r].data, body[r])
          IN  IF s.threw
              THEN /\ Respond(r, Response(500, "Error processing webhook", "", "", <<>>))
                   /\ UNCHANGED writeVars
              ELSE /\ CreateCall(r, <<[fields |-> [Name   |-> extractName(body[r].data, now),
                                                   Notes  |-> extractNotes(body[r].data),
                                                   Status |-> s.value]]>>)
                   /\ pc' = [pc EXCEPT ![r] = "awaitCreate"]
                   /\ UNCHANGED resp
  /\ UNCHANGED <<variant, now, transformVars, table, reqVars, schema, readVars>>

WebhookStandalone(r) ==
  /\ variant = "standalone" /\ kind[r] = "webhook" /\ pc[r] = "received"
  /\ IF ~Has(body[r], "data")
     THEN /\ Respond(r, Response(400, "No data received", "", "", <<>>))
          /\ UNCHANGED writeVars
     ELSE LET s == extractStatus(body[r].data, body[r])
          IN  IF s.threw
              THEN /\ Respond(r, Response(500, "Error processing webhook", "", "", <<>>))
                   /\ UNCHANGED writeVars
              ELSE /\ CreateCall(r, <<[fields |-> [Name   |-> extractName(body[r].data, now),
                                                   Notes  |-> extractNotes(body[r].data),
                                                   Status |-> s.value]]>>)
                   /\ pc' = [pc EXCEPT ![r] = "awaitCreate"]
                   /\ UNCHANGED resp
  /\ UNCHANGED <<variant, now, transformVars, table, reqVars, schema, readVars>>

WebhookStandaloneSettled(r) ==
  /\ variant = "standalone" /\ kind[r] = "webhook" /\ pc[r] = "awaitCreate"
  /\ Settled(writePromise[r])
  /\ IF writePromise[r].state = "fulfilled"
     THEN Respond(r, Response(200, "Success", "", "", <<>>))
     ELSE Respond(r, Response(500, "Error processing webhook", "", "", <<>>))
  /\ UNCHANGED <<variant, now, transformVars, table, reqVars, schema, writeVars, readVars>>

-----------------------------------------------------------------------------
(* POST /webhook, handler built on airtable-methods *)

WebhookModule(r) ==
  /\ variant = "module" /\ kind[r] = "webhook" /\ pc[r] = "received"
  /\ LET out == transformWebhookToAirtableRecord(variant, body[r], now)
     IN  IF out.threw
         THEN /\ Respond(r, Response(500, "Error processing webhook", "", out.error.message, <<>>))
              /\ UNCHANGED writeVars
         ELSE /\ CreateCall(r, <<out.record>>)
              /\ pc' = [pc EXCEPT ![r] = "awaitCreate"]
              /\ UNCHANGED resp
  /\ UNCHANGED <<variant, now, transformVars, table, reqVars, schema, readVars>>

\* Faulty variant of WebhookSettled: the 500 response leaves the error's message out
WebhookSettledNoMessage(r) ==
  /\ variant \in {"module", "schemaAware"} /\ kind[r] = "webhook" /\ pc[r] = "awaitCreate"
  /\ Settled(writePromise[r])
  /\ IF writePromise[r].state = "fulfilled"
     THEN Respond(r, Response(200, "Successfully processed webhook and added to Airtable",
                              writePromise[r].value[1].id, "", <<>>))
     ELSE Respond(r, Response(500, "Error processing webhook", "", "", <<>>))
  /\ UNCHANGED <<variant, now, transformVars, table, reqVars, schema, writeVars, readVars>>

\* The handler resumes after await writeToAirtable (the same code in the
\* module-based and the schema-aware handler)
WebhookSettled(r) ==
  /\ variant \in {"module", "schemaAware"} /\ kind[r] = "webhook" /\ pc[r] = "awaitCreate"
  /\ Settled(writePromise[r])
  /\ IF writePromise[r].state = "fulfilled"
     THEN Respond(r, Response(200, "Successfully processed webhook and added to Airtable",
                              writePromise[r].value[1].id, "", <<>>))
     ELSE Respond(r, Response(500, "Error processing webhook", "",
                              writePromise[r].reason.message, <<>>))
  /\ UNCHANGED <<variant, now, transformVars, table, reqVars, schema, writeVars, readVars>>

-----------------------------------------------------------------------------
(* POST /webhook, schema-aware handler *)

DefaultStatusOptions == <<"New", "In Progress", "Completed", "Pending">>

\* schema.recommendedValues?.Status || [...]
statusOptions(sch) ==
  IF Has(sch, "recommendedValues") /\ Has(sch.recommendedValues, "Status")
  THEN sch.recommendedValues.Status
  ELSE DefaultStatusOptions

\* Faulty variant of safeRecord: the transformed Status is passed on unchecked
safeRecordUnchecked(raw, sch, t) ==
  LET name == [Name |-> IF raw.fields.Name # "" THEN raw.fields.Name
                        ELSE "Webhook " \o toISOString(t)]
      notes == IF raw.fields.Notes # "" THEN [Notes |-> raw.fields.Notes] ELSE <<>>
  IN  [fields |-> name @@ notes @@ [Status |-> raw.fields.Status]]

safeRecord(raw, sch, t) ==
  LET opts == statusOptions(sch)
      webhookStatus == raw.fields.Status
      name == [Name |-> IF raw.fields.Name # "" THEN raw.fields.Name
                        ELSE "Webhook " \o toISOString(t)]
      notes == IF raw.fields.Notes # "" THEN [Notes |-> raw.fields.Notes] ELSE <<>>
      status == IF Len(opts) > 0
                THEN [Status |-> IF webhookStatus # "" /\ InSeq(opts, webhookStatus)
                                 THEN webhookStatus ELSE opts[1]]
                ELSE <<>>
  IN  [fields |-> name @@ notes @@ status]

\* The handler calls getTableSchema, which samples the table
WebhookSchemaAware(r) ==
  /\ variant = "schemaAware" /\ kind[r] = "webhook" /\ pc[r] = "received"
  /\ ReadStart(r, [maxRecords |-> ProbeMaxRecords])
  /\ pc' = [pc EXCEPT ![r] = "awaitProbe"]
  /\ UNCHANGED <<variant, now, transformVars, table, reqVars, schema, writeVars, resp>>

\* Faulty variant of WebhookProbed: a failed probe is answered with 500
WebhookProbedSurfacing(r) ==
  /\ variant = "schemaAware" /\ kind[r] = "webhook" /\ pc[r] = "awaitProbe"
  /\ Settled(readPromise[r])
  /\ LET sch == getTableSchema(readPromise[r])
         out == transformWebhookToAirtableRecord(variant, body[r], now)
     IN  /\ schema' = [schema EXCEPT ![r] = sch]
         /\ IF out.threw \/ readPromise[r].state = "rejected"
            THEN /\ Respond(r, Response(500, "Error processing webhook", "",
                                        IF out.threw THEN out.error.message
                                        ELSE readPromise[r].reason.message, <<>>))
                 /\ UNCHANGED writeVars
            ELSE /\ CreateCall(r, <<safeRecord(out.record, sch, now)>>)
                 /\ pc' = [pc EXCEPT ![r] = "awaitCreate"]
                 /\ UNCHANGED resp
  /\ UNCHANGED <<variant, now, transformVars, table, reqVars, readVars>>

\* getTableSchema returned: transform, sanitise, write
WebhookProbed(r) ==
  /\ variant = "schemaAware" /\ kind[r] = "webhook" /\ pc[r] = "awaitProbe"
  /\ Settled(readPromise[r])
  /\ LET sch == getTableSchema(readPromise[r])
         out == transformWebhookToAirtableRecord(variant, body[r], now)
     IN  /\ schema' = [schema EXCEPT ![r] = sch]
         /\ IF out.threw
            THEN /\ Respond(r, Response(500, "Error processing webhook", "",
                                        out.error.message, <<>>))
                 /\ UNCHANGED writeVars
            ELSE /\ CreateCall(r, <<safeRecord(out.record, sch, now)>>)
                 /\ pc' = [pc EXCEPT ![r] = "awaitCreate"]
                 /\ UNCHANGED resp
  /\ UNCHANGED <<variant, now, transformVars, table, reqVars, readVars>>

-----------------------------------------------------------------------------
(* GET /test-read *)

TestReadMaxRecords == 10

TestRead(r) ==
  /\ variant = "module" /\ kind[r] = "test-read" /\ pc[r] = "received"
  /\ ReadStart(r, [maxRecords |-> TestReadMaxRecords, view |-> "Grid view"])
  /\ pc' = [pc EXCEPT ![r] = "reading"]
  /\ UNCHANGED <<variant, now, transformVars, table, reqVars, schema, writeVars, resp>>

TestReadSettled(r) ==
  /\ kind[r] = "test-read" /\ pc[r] = "reading"
  /\ Settled(readPromise[r])
  /\ IF readPromise[r].state = "fulfilled"
     THEN Respond(r, Response(200, "Successfully read records from Airtable", "", "",
                              readPromise[r].value))
     ELSE Respond(r, Response(500, "Error reading from Airtable", "",
                              readPromise[r].reason.message, <<>>))
  /\ UNCHANGED <<variant, now, transformVars, table, reqVars, schema, writeVars, readVars>>

-----------------------------------------------------------------------------
(* /test-write *)

TestRecord ==
  [fields |-> [Name |-> "Test User", Notes |-> "This is a test record created via API",
               Status |-> "TEST"]]

TestWriteModule(r) ==
  /\ variant = "module" /\ kind[r] = "test-write" /\ pc[r] = "received"
  /\ CreateCall(r, <<TestRecord>>)
  /\ pc' = [pc EXCEPT ![r] = "awaitCreate"]
  /\ UNCHANGED <<variant, now, transformVars, table, reqVars, schema, readVars, resp>>

\* The handler resumes after await writeToAirtable
TestWriteSettled(r) ==
  /\ kind[r] = "test-write" /\ pc[r] = "awaitCreate"
  /\ Settled(writePromise[r])
  /\ IF writePromise[r].state = "fulfilled"
     THEN Respond(r, Response(200, "Successfully created test record in Airtable", "", "",
                              page(<<>>, writePromise[r].value)))
     ELSE Respond(r, Response(500, "Error writing to Airtable", "",
                              writePromise[r].reason.message, <<>>))
  /\ UNCHANGED <<variant, now, transformVars, table, reqVars, schema, writeVars, readVars>>

-----------------------------------------------------------------------------
(* The clock *)

Tick ==
  /\ now < MaxClock
  /\ now' = now + 1
  /\ UNCHANGED <<variant, transformVars, table, reqVars, pc, schema, writeVars, readVars, resp>>

-----------------------------------------------------------------------------
(* Spec: the stand-alone or the module-based handler serving MaxReqs webhooks *)

NoSchema == [fields |-> <<>>]
NotRun ==
  [threw |-> FALSE, record |-> [fields |-> NoFields], error |-> NoError, ran |-> FALSE]

\* The request bodies sent to POST /webhook: no data; a full name with an
\* action; a non-string action and no attributes; a name, a status and no action
WebhookBodies ==
  << <<>>,
     [data |-> [type |-> "Person",
                attributes |-> [first_name |-> "Jane", last_name |-> "Doe", status |-> "Done"]],
      action |-> Str("updated")],
     [data |-> [type |-> "Person"], action |-> Num("7")],
     [data |-> [type |-> "Person", attributes |-> [name |-> "Acme", status |-> "Done"]]] >>

BodySet == {WebhookBodies[i] : i \in 1..Len(WebhookBodies)}

\* Requests are interchangeable: they are numbered in the order of their
\* route and body
Rank(k, b) ==
  CASE k = "webhook"   -> CHOOSE i \in 1..Len(WebhookBodies) : WebhookBodies[i] = b
    [] k = "test-read"  -> Len(WebhookBodies) + 1
    [] k = "test-write" -> Len(WebhookBodies) + 2
    [] OTHER            -> Len(WebhookBodies) + 3

Ordered(k, b) ==
  \A r \in Reqs : r + 1 \in Reqs => Rank(k[r], b[r]) <= Rank(k[r + 1], b[r + 1])

CallsIdle ==
  /\ pc = [r \in Reqs |-> "received"]
  /\ schema = [r \in Reqs |-> NoSchema]
  /\ createArgs = [r \in Reqs |-> <<>>]
  /\ writePromise = [r \in Reqs |-> NoPromise]
  /\ readOpts = [r \in Reqs |-> NoOpts]
  /\ pending = [r \in Reqs |-> NoQuery]
  /\ delivered = [r \in Reqs |-> <<>>]
  /\ allRecords = [r \in Reqs |-> <<>>]
  /\ readPromise = [r \in Reqs |-> NoPromise]
  /\ settles = [r \in Reqs |-> 0]
  /\ resp = [r \in Reqs |-> <<>>]

Init ==
  /\ variant \in {"standalone", "module"}
  /\ now = 0
  /\ tInput = <<>>
  /\ tOutput = NotRun
  /\ table \in {SeedTable(n) : n \in {0, MaxSeedRows}}
  /\ kind = [r \in Reqs |-> "webhook"]
  /\ body \in [Reqs -> BodySet]
  /\ Ordered(kind, body)
  /\ CallsIdle

Next ==
  \/ Tick
  \/ \E r \in Reqs :
       \/ WebhookStandalone(r)
       \/ WebhookStandaloneSettled(r)
       \/ WebhookModule(r)
       \/ WebhookSettled(r)
       \/ StoreCreated(r)
       \/ StoreRefused(r)

Spec == Init /\ [][Next]_vars

-----------------------------------------------------------------------------
(* SpecSchema: the schema-aware handler serving MaxProbing webhooks *)

InitSchema ==
  /\ variant = "schemaAware"
  /\ now = 0
  /\ tInput = <<>>
  /\ tOutput = NotRun
  /\ table \in {SeedTable(n) : n \in 0..MaxSeedRows}
  /\ kind = [r \in Reqs |-> IF r <= MaxProbing THEN "webhook" ELSE "none"]
  /\ body \in {b \in [Reqs -> BodySet] : \A r \in Reqs : kind[r] = "none" => b[r] = <<>>}
  /\ Ordered(kind, body)
  /\ CallsIdle

NextSchema ==
  \/ Tick
  \/ \E r \in Reqs :
       \/ WebhookSchemaAware(r)
       \/ WebhookProbed(r)
       \/ WebhookSettled(r)
       \/ StorePage(r)
       \/ StoreFail(r)
       \/ StoreCreated(r)
       \/ StoreRefused(r)

SpecSchema == InitSchema /\ [][NextSchema]_vars

-----------------------------------------------------------------------------
(* SpecRoutes: the module-based handler file serving /webhook, /test-read *)
(* and /test-write concurrently                                           *)

InitRoutes ==
  /\ variant = "module"
  /\ now = 0
  /\ tInput = <<>>
  /\ tOutput = NotRun
  /\ table \in {SeedTable(n) : n \in {0, MaxSeedRows}}
  /\ kind \in [Reqs -> {"webhook", "test-read", "test-write"}]
  /\ body \in {b \in [Reqs -> BodySet] : \A r \in Reqs : kind[r] # "webhook" => b[r] = <<>>}
  /\ Ordered(kind, body)
  /\ CallsIdle

NextRoutes ==
  \/ Tick
  \/ \E r \in Reqs :
       \/ WebhookModule(r)
       \/ WebhookSettled(r)
       \/ TestRead(r)
       \/ TestReadSettled(r)
       \/ TestWriteModule(r)
       \/ TestWriteSettled(r)
       \/ StorePage(r)
       \/ StoreFail(r)
       \/ StoreCreated(r)
       \/ StoreRefused(r)

SpecRoutes == InitRoutes /\ [][NextRoutes]_vars

-----------------------------------------------------------------------------
(* SpecRead: readFromAirtable called directly, with every option set *)

ReadOptions ==
  {<<>>, [maxRecords |-> 0], [maxRecords |-> 1], [maxRecords |-> 2],
   [maxRecords |-> 3, view |-> "All"]}

ReadCall(r) ==
  /\ kind[r] = "read" /\ pc[r] = "received"
  /\ ReadStart(r, body[r])
  /\ pc' = [pc EXCEPT ![r] = "reading"]
  /\ UNCHANGED <<variant, now, transformVars, table, reqVars, schema, writeVars, resp>>

InitRead ==
  /\ variant = "module"
  /\ now = 0
  /\ tInput = <<>>
  /\ tOutput = NotRun
  /\ table \in {SeedTable(n) : n \in 0..MaxSeedRows}
  /\ kind = [r \in Reqs |-> "read"]
  /\ body \in [Reqs -> ReadOptions]
  /\ CallsIdle

NextRead ==
  \E r \in Reqs :
    \/ ReadCall(r)
    \/ StorePage(r)
    \/ StoreFail(r)

SpecRead == InitRead /\ [][NextRead]_vars

-----------------------------------------------------------------------------
(* SpecTransform: the transformer applied to every payload of Payloads *)

InitTransform ==
  /\ variant \in {"module", "schemaAware"}
  /\ now \in 0..MaxClock
  /\ tInput \in Payloads
  /\ tOutput = NotRun
  /\ table = <<>>
  /\ kind = [r \in Reqs |-> "none"]
  /\ body = [r \in Reqs |-> <<>>]
  /\ CallsIdle

Transform ==
  /\ ~tOutput.ran
  /\ LET out == transformWebhookToAirtableRecord(variant, tInput, now)
     IN  tOutput' = [threw |-> out.threw, record |-> out.record,
                     error |-> out.error, ran |-> TRUE]
  /\ UNCHANGED <<variant, now, tInput, table, reqVars, pc, schema, writeVars, readVars, resp>>

NextTransform == Transform

SpecTransform == InitTransform /\ [][NextTransform]_vars

-----------------------------------------------------------------------------
(* Helpers of the properties *)

RECURSIVE Flatten(_)
Flatten(pages) == IF pages = <<>> THEN <<>> ELSE Head(pages) \o Flatten(Tail(pages))

PlainOf(records) ==
  [i \in 1..Len(records) |-> [id |-> records[i].id, fields |-> records[i].fields]]

IsSeed(row) == \E i \in 1..MaxSeedRows : row = SeedRow(i)
IsNotSeed(row) == ~IsSeed(row)

NoData(r) == kind[r] = "webhook" /\ ~Has(body[r], "data")
Finished(r) == pc[r] = "done"

\* The transformer ran on a payload with data and returned a record
Transformed == tOutput.ran /\ Has(tInput, "data") /\ ~tOutput.threw
TStatus == tOutput.record.fields.Status
TName == tOutput.record.fields.Name
ActionIs(s) == Has(tInput, "action") /\ tInput.action = Str(s)
NoAction == ~Has(tInput, "action") \/ ~Truthy(tInput.action)
HasAttr(key) == Has(tInput.data, "attributes") /\ TruthyAttr(tInput.data.attributes, key)

-----------------------------------------------------------------------------
(* C1 *)

\* C1 as claimed: a POST /webhook whose body has no data is never followed by
\* a create call, and is answered with HTTP 400
C1_Original ==
  \A r \in Reqs : NoData(r) =>
    /\ createArgs[r] = <<>>
    /\ Finished(r) => resp[r] = <<Response(400, "No data received", "", "", <<>>)>>

\* C1 amended: the stand-alone handler answers a body without data with HTTP
\* 400 and issues no create call; the module-based handler does not reject it:
\* the only create call it issues for such a body carries the fixed error record
C1_NoDataRejectedStandalone ==
  \A r \in Reqs : NoData(r) =>
    /\ variant = "standalone" =>
         /\ createArgs[r] = <<>>
         /\ Finished(r) => resp[r] = <<Response(400, "No data received", "", "", <<>>)>>
    /\ variant = "module" =>
         /\ pc[r] # "received" => createArgs[r] = << <<ErrorRecord>> >>
         /\ Finished(r) => resp[r][1].status # 400

C1_Witness ==
  variant = "standalone"
  /\ \E r \in Reqs : NoData(r) /\ Finished(r) /\ resp[r][1].status = 400

-----------------------------------------------------------------------------
(* C2 *)

\* C2 as claimed: Status follows the fixed lookup on action: created gives
\* "Not started", updated "In progress", deleted or completed "Done", any
\* other or absent action with no usable data.attributes.status "Not started"
C2_Original ==
  Transformed =>
    /\ ActionIs("created") => TStatus = "Not started"
    /\ ActionIs("updated") => TStatus = "In progress"
    /\ (ActionIs("deleted") \/ ActionIs("completed")) => TStatus = "Done"
    /\ (/\ ~ActionIs("created") /\ ~ActionIs("updated")
        /\ ~ActionIs("deleted") /\ ~ActionIs("completed")
        /\ ~(HasAttr("status") /\ tInput.data.attributes.status \in ValidStatuses))
       => TStatus = "Not started"

\* C2 amended: the transformer of airtable-methods.js (and the stand-alone
\* handler's copy of extractStatus) does not use the lookup: a non-empty
\* action gives the action in upper case, and without one Status is
\* data.attributes.status when that is non-empty and "RECEIVED" otherwise
C2_StatusUpperCased ==
  (Transformed /\ variant = "module") =>
    /\ ActionIs("created") => TStatus = "CREATED"
    /\ ActionIs("updated") => TStatus = "UPDATED"
    /\ ActionIs("deleted") => TStatus = "DELETED"
    /\ ActionIs("completed") => TStatus = "COMPLETED"
    /\ ActionIs("archived") => TStatus = "ARCHIVED"
    /\ (NoAction /\ HasAttr("status")) => TStatus = tInput.data.attributes.status
    /\ (NoAction /\ ~HasAttr("status")) => TStatus = "RECEIVED"

C2_Witness ==
  Transformed /\ variant = "module" /\ ActionIs("created") /\ TStatus = "CREATED"
  /\ HasAttr("status") /\ tInput.data.attributes.status = "Done"

-----------------------------------------------------------------------------
(* C3 *)

-----------------------------------------------------------------------------
(* C4 *)

\* The allow-list and the transformed Status of request r
AllowList(r) == statusOptions(schema[r])
Candidate(r) == transformWebhookToAirtableRecord(variant, body[r], 0).record.fields.Status
Written(r) == createArgs[r][1][1]

\* C4 as claimed: the Status of the record passed to create is S when S is in
\* L and L[0] otherwise, so it is always a member of L
C4_Original ==
  \A r \in Reqs : (kind[r] = "webhook" /\ createArgs[r] # <<>>) =>
    /\ Has(Written(r).fields, "Status")
    /\ InSeq(AllowList(r), Written(r).fields.Status)
    /\ Written(r).fields.Status =
         IF InSeq(AllowList(r), Candidate(r)) THEN Candidate(r) ELSE AllowList(r)[1]

\* C4 amended: when L is not empty the Status of the record passed to create
\* is S when S is in L and L[0] otherwise, a member of L; when L is empty the
\* record carries no Status at all
C4_StatusSanitized ==
  \A r \in Reqs : (kind[r] = "webhook" /\ createArgs[r] # <<>>) =>
    IF AllowList(r) # <<>>
    THEN /\ Has(Written(r).fields, "Status")
         /\ InSeq(AllowList(r), Written(r).fields.Status)
         /\ Written(r).fields.Status =
              IF InSeq(AllowList(r), Candidate(r)) THEN Candidate(r) ELSE AllowList(r)[1]
    ELSE ~Has(Written(r).fields, "Status")

C4_Witness ==
  \E r \in Reqs :
    /\ kind[r] = "webhook" /\ createArgs[r] # <<>>
    /\ Has(schema[r], "recommendedValues")
    /\ AllowList(r) # <<>>
    /\ ~InSeq(AllowList(r), Candidate(r))
    /\ Written(r).fields.Status = AllowList(r)[1]

-----------------------------------------------------------------------------
(* C5 *)

\* The body has data and a truthy action that is no string: extractStatus throws
ThrowsInTransform(r) ==
  Has(body[r], "data") /\ Has(body[r], "action")
  /\ Truthy(body[r].action) /\ body[r].action.type # "string"

\* At most one response, and one exactly when the handler has ended
OneResponse(r) == Len(resp[r]) <= 1 /\ (Finished(r) <=> Len(resp[r]) = 1)

-----------------------------------------------------------------------------
(* C8 *)

\* C8: readFromAirtable settles at most once and only when the store has
\* finished paging; when it resolves, its value is every record of every page
\* delivered, as {id, fields} pairs in page order and within-page order, the
\* whole selection of the store and at most maxRecords entries; when the store
\* reports an error it rejects with that error and does not resolve
C8_ReadSettlesAfterPaging ==
  \A c \in Reqs :
    /\ settles[c] <= 1
    /\ pending[c].open => readPromise[c].state = "pending"
    /\ readPromise[c].state = "pending" => (pending[c].open /\ settles[c] = 0)
    /\ Settled(readPromise[c]) => settles[c] = 1
    /\ readPromise[c].state = "fulfilled" =>
         /\ pending[c].rows = <<>>
         /\ readPromise[c].value = PlainOf(Flatten(delivered[c]))
         /\ readPromise[c].value = PlainOf(StoreSelect(table, readOpts[c]))
         /\ Len(readPromise[c].value) <= readOpts[c].maxRecords
         /\ \A i \in 1..Len(readPromise[c].value) :
              /\ readPromise[c].value[i].id # ""
              /\ DOMAIN readPromise[c].value[i] = {"id", "fields"}
    /\ readPromise[c].state = "rejected" =>
         /\ readPromise[c].reason \in StoreErrors
         /\ readPromise[c].value = <<>>

C8_Witness ==
  \E c \in Reqs :
    /\ readPromise[c].state = "fulfilled"
    /\ Len(delivered[c]) >= 2
    /\ Len(readPromise[c].value) = readOpts[c].maxRecords
    /\ Len(readPromise[c].value) < Len(table)

-----------------------------------------------------------------------------
(* C9 *)

Fulfilled == {r \in Reqs : writePromise[r].state = "fulfilled"}

\* C9: a POST /webhook issues at most one create call, carrying exactly one
\* record; a failed call is not retried, the promise is rejected with the
\* store's own error, which is what the handler reports, and the table holds
\* one new row per successful call and none for a failed one
C9_OneCreateNoRetry ==
  /\ \A r \in Reqs : kind[r] = "webhook" =>
       /\ Len(createArgs[r]) <= 1
       /\ \A i \in 1..Len(createArgs[r]) : Len(createArgs[r][i]) = 1
       /\ writePromise[r].state = "rejected" =>
            /\ writePromise[r].reason \in StoreErrors
            /\ writePromise[r].value = <<>>
            /\ (Finished(r) /\ variant = "module") =>
                 resp[r][1].error = writePromise[r].reason.message
       /\ writePromise[r].state = "fulfilled" =>
            /\ Len(writePromise[r].value) = 1
            /\ \E i \in 1..Len(table) : table[i] = writePromise[r].value[1]
  /\ Len(SelectSeq(table, IsNotSeed)) = Cardinality(Fulfilled)

C9_Witness ==
  \E r, q \in Reqs :
    /\ kind[r] = "webhook" /\ Finished(r) /\ writePromise[r].state = "rejected"
    /\ Len(createArgs[r]) = 1
    /\ kind[q] = "webhook" /\ Finished(q) /\ writePromise[q].state = "fulfilled"

-----------------------------------------------------------------------------
(* C6 *)

\* C6: for a payload whose data has attributes, Name is "first_name last_name"
\* when both are set (non-empty), else name when set, else title when set,
\* else "Planning Center Item - " followed by the timestamp; and whenever the
\* transformer returns a record for a payload with data, with or without
\* attributes, Name is not empty
C6_NamePriority ==
  Transformed =>
    /\ TName # ""
    /\ Len(TName) > 0
    /\ Has(tInput.data, "attributes") =>
         LET a == tInput.data.attributes
         IN  /\ (HasAttr("first_name") /\ HasAttr("last_name")) =>
                  TName = a.first_name \o " " \o a.last_name
             /\ (~(HasAttr("first_name") /\ HasAttr("last_name")) /\ HasAttr("name")) =>
                  TName = a.name
             /\ (/\ ~(HasAttr("first_name") /\ HasAttr("last_name"))
                 /\ ~HasAttr("name") /\ HasAttr("title")) =>
                  TName = a.title
             /\ (/\ ~(HasAttr("first_name") /\ HasAttr("last_name"))
                 /\ ~HasAttr("name") /\ ~HasAttr("title")) =>
                  TName = "Planning Center Item - " \o toISOString(now)
    /\ ~Has(tInput.data, "attributes") =>
         TName = "Planning Center Item - " \o toISOString(now)

C6_Witness ==
  /\ Transformed
  /\ HasAttr("first_name") /\ HasAttr("last_name") /\ HasAttr("name") /\ HasAttr("title")
  /\ TName = "Jane Doe"

-----------------------------------------------------------------------------
(* C7 *)

\* C7: for a payload without data the transformer returns exactly the record
\* {Name: "Unknown", Notes: "No data received", Status: "ERROR"} and does not
\* throw, whatever action is
C7_NoDataErrorRecord ==
  (tOutput.ran /\ ~Has(tInput, "data")) =>
    /\ ~tOutput.threw
    /\ tOutput.record.fields.Name = "Unknown"
    /\ tOutput.record.fields.Notes = "No data received"
    /\ tOutput.record.fields.Status = "ERROR"
    /\ DOMAIN tOutput.record.fields = {"Name", "Notes", "Status"}

C7_Witness ==
  /\ tOutput.ran /\ ~Has(tInput, "data")
  /\ Has(tInput, "action") /\ tInput.action = Num("7")
  /\ tOutput.record = ErrorRecord

-----------------------------------------------------------------------------
(* C10 *)

\* Every step request r itself can take
RouteStep(r) ==
  \/ WebhookModule(r) \/ WebhookSettled(r)
  \/ TestRead(r) \/ TestReadSettled(r)
  \/ TestWriteModule(r) \/ TestWriteSettled(r)
  \/ StorePage(r) \/ StoreFail(r) \/ StoreCreated(r) \/ StoreRefused(r)

\* The record a webhook handler passes to create is the transform of its own
\* body at some reading of the clock
OwnRecord(r) ==
  \E t \in 0..MaxClock :
    createArgs[r] = << <<transformWebhookToAirtableRecord(variant, body[r], t).record>> >>

\* The response of a finished request, from the store's replies to its own calls
OwnResponse(r) ==
  LET w == writePromise[r]
      d == PlainOf(Flatten(delivered[r]))
  IN  CASE kind[r] = "webhook" ->
             IF w.state = "fulfilled"
             THEN resp[r][1].status = 200 /\ resp[r][1].recordId = w.value[1].id
             ELSE resp[r][1].status = 500
                  /\ resp[r][1].error = IF w.state = "rejected" THEN w.reason.message
                                        ELSE "action.toUpperCase is not a function"
        [] kind[r] = "test-write" ->
             IF w.state = "fulfilled"
             THEN resp[r][1].status = 200 /\ resp[r][1].records = PlainOf(w.value)
             ELSE resp[r][1].status = 500 /\ resp[r][1].error = w.reason.message
        [] kind[r] = "test-read" ->
             IF readPromise[r].state = "fulfilled"
             THEN /\ resp[r][1].status = 200
                  /\ resp[r][1].records = d
                  /\ resp[r][1].recordCount = Len(d)
             ELSE resp[r][1].status = 500
                  /\ resp[r][1].error = readPromise[r].reason.message

\* C10: under every interleaving of /webhook, /test-read and /test-write
\* requests, the accumulator of a readFromAirtable call holds exactly the
\* records the store delivered to that call, the record a request writes is
\* determined by its own body, its response by the store's replies to its own
\* calls, and a request that has not ended can always take its next step,
\* whatever the outcome of the other requests
C10_RequestsIndependent ==
  \A r \in Reqs :
    /\ allRecords[r] = PlainOf(Flatten(delivered[r]))
    /\ kind[r] = "test-read" => createArgs[r] = <<>>
    /\ kind[r] = "test-write" => createArgs[r] \in {<<>>, << <<TestRecord>> >>}
    /\ kind[r] = "webhook" => (createArgs[r] = <<>> \/ OwnRecord(r))
    /\ kind[r] # "test-read" => delivered[r] = <<>>
    /\ Len(resp[r]) <= 1
    /\ Finished(r) => OwnResponse(r)
    /\ ~Finished(r) => ENABLED RouteStep(r)

C10_Witness ==
  \E r, q \in Reqs :
    /\ r # q
    /\ kind[r] = "test-read" /\ Finished(r) /\ resp[r][1].status = 500
    /\ delivered[r] # <<>> /\ allRecords[r] # <<>>
    /\ kind[q] = "test-read" /\ Finished(q) /\ resp[q][1].status = 200
    /\ Len(delivered[q]) >= 2
    /\ resp[q][1].recordCount = Len(table)

=============================================================================
